---- MODULE Spec2Model ----
(***************************************************************************)
(* A model of GeneralLatencyAnalyzer                                       *)
(* (latency-analyzer/system-network/icmp/general_latency_analyzer.py).     *)
(*                                                                         *)
(* Python values are represented as follows.                               *)
(*   - a dict is a sequence of entries in insertion order, keys distinct   *)
(*     (path latencies), or a function (skb_pointers, incoming_lookup)     *)
(*     where the code never iterates it;                                   *)
(*   - a list is a sequence;                                               *)
(*   - a reference to a session dict is the index of that dict in          *)
(*     self.sessions, so that two dicts with equal fields stay two         *)
(*     objects;                                                            *)
(*   - a float latency is a natural number of time units: the code only    *)
(*     compares latencies and tests them for zero;                         *)
(*   - None is the string None where the other values are strings.         *)
(***************************************************************************)
EXTENDS Integers, Sequences, FiniteSets, TLC

VARIABLES
    pc,                 \* position of the run
    skb_pointers,       \* argument of detect_packet_loss
    loss,               \* its result
    path1_latencies,    \* arguments of find_max_latency_excluding_corrupted
    path2_latencies,
    corrupted_stages,
    resolved,           \* its result
    block_in,           \* argument of parse_session_block, of parse_path_latencies
    record,             \* its result
    latencies_out,      \* result of parse_path_latencies
    fs,                 \* the trace files on disk: path -> text
    node_pairs,         \* self.node_pairs
    sessions,           \* self.sessions
    origin,             \* history: origin[i] = index of the node pair whose loop iteration parsed sessions[i]
    stdout,             \* what load_and_parse_data printed
    matching,           \* result of match_session_pairs_for_all_nodes
    report,             \* result of generate_analysis_report
    summary             \* result of analyze_sessions of the summary generator

unit_vars == <<skb_pointers, loss, path1_latencies, path2_latencies,
               corrupted_stages, resolved>>
parse_vars == <<block_in, record, latencies_out>>
run_vars == <<fs, node_pairs, sessions, origin, stdout, matching, report, summary>>

vars == <<pc, unit_vars, parse_vars, run_vars>>

(***************************************************************************)
(* Bounds and input sets                                                   *)
(***************************************************************************)
MaxStage == 3       \* stage indexes 0..MaxStage may carry a pointer
MaxLatency == 2     \* latencies are drawn from 0..MaxLatency
MaxPairs == 2       \* number of add_node_pair calls
MaxBlocks == 2      \* blocks per trace file

None == "None"

Stages == 0..MaxStage
Pointers == {"0xAA", "0xBB", "0xCC"}
Latencies == 0..MaxLatency

\* f"{start}->{end}"
StageKey(start, end) == ToString(start) \o "->" \o ToString(end)

StageKeys == {StageKey(0, 1), StageKey(1, 2)}

\* every dict stage -> pointer over a subset of the stages
PointerMaps == UNION {[D -> Pointers] : D \in SUBSET Stages}

\* every dict stage_key -> latency, as its entries in insertion order
Entry(k, v) == [stage_pair |-> k, latency |-> v]
Entries == {Entry(k, v) : k \in StageKeys, v \in Latencies}
LatencyMaps ==
    {<<>>} \cup {<<e>> : e \in Entries}
           \cup {m \in {<<e, f>> : e \in Entries, f \in Entries} : m[1].stage_pair # m[2].stage_pair}

\* every list of corrupted stage keys
CorruptedLists ==
    {<<>>} \cup {<<k>> : k \in StageKeys}
           \cup {c \in {<<k, l>> : k \in StageKeys, l \in StageKeys} : c[1] # c[2]}

\* x in list
InList(x, list) == \E i \in DOMAIN list : list[i] = x

(***************************************************************************)
(* detect_packet_loss                                                      *)
(***************************************************************************)
Verdict(drop, drop_reason, corrupted) ==
    [drop |-> drop, drop_reason |-> drop_reason, corrupted_stages |-> corrupted]

NoLoss == Verdict(FALSE, None, <<>>)

\* mutant: the stage 1->2 comparison is left out
detect_without_stage_2(pointers) ==
    IF 0 \in DOMAIN pointers /\ 1 \in DOMAIN pointers /\ 2 \in DOMAIN pointers
    THEN IF pointers[0] # pointers[1]
         THEN Verdict(TRUE, "Stage_0_to_1_SKB_Mismatch", <<StageKey(0, 1)>>)
         ELSE NoLoss
    ELSE NoLoss

\* mutant: the stage 1->2 comparison comes first and does not ask for stage 0 = stage 1
detect_stage_2_first(pointers) ==
    IF 0 \in DOMAIN pointers /\ 1 \in DOMAIN pointers /\ 2 \in DOMAIN pointers
    THEN IF pointers[1] # pointers[2]
         THEN Verdict(TRUE, "Stage_1_to_2_SKB_Mismatch", <<StageKey(1, 2)>>)
         ELSE IF pointers[0] # pointers[1]
         THEN Verdict(TRUE, "Stage_0_to_1_SKB_Mismatch", <<StageKey(0, 1)>>)
         ELSE NoLoss
    ELSE NoLoss

\* mutant: a pointer recorded for stage 3 is compared as well
detect_through_stage_3(pointers) ==
    IF 0 \in DOMAIN pointers /\ 1 \in DOMAIN pointers /\ 2 \in DOMAIN pointers
    THEN IF pointers[0] = pointers[1] /\ pointers[1] # pointers[2]
         THEN Verdict(TRUE, "Stage_1_to_2_SKB_Mismatch", <<StageKey(1, 2)>>)
         ELSE IF pointers[0] # pointers[1]
         THEN Verdict(TRUE, "Stage_0_to_1_SKB_Mismatch", <<StageKey(0, 1)>>)
         ELSE IF 3 \in DOMAIN pointers /\ pointers[2] # pointers[3]
         THEN Verdict(TRUE, "Stage_2_to_3_SKB_Mismatch", <<StageKey(2, 3)>>)
         ELSE NoLoss
    ELSE NoLoss

\* mutant: stages 0 and 1 are judged although stage 2 is absent
detect_without_presence_of_2(pointers) ==
    IF 0 \in DOMAIN pointers /\ 1 \in DOMAIN pointers
    THEN IF 2 \in DOMAIN pointers /\ pointers[0] = pointers[1] /\ pointers[1] # pointers[2]
         THEN Verdict(TRUE, "Stage_1_to_2_SKB_Mismatch", <<StageKey(1, 2)>>)
         ELSE IF pointers[0] # pointers[1]
         THEN Verdict(TRUE, "Stage_0_to_1_SKB_Mismatch", <<StageKey(0, 1)>>)
         ELSE NoLoss
    ELSE NoLoss

detect_packet_loss(pointers) ==
    IF 0 \in DOMAIN pointers /\ 1 \in DOMAIN pointers /\ 2 \in DOMAIN pointers
    THEN LET stage_0_ptr == pointers[0]
             stage_1_ptr == pointers[1]
             stage_2_ptr == pointers[2]
         IN  IF stage_0_ptr = stage_1_ptr /\ stage_1_ptr # stage_2_ptr
             THEN Verdict(TRUE, "Stage_1_to_2_SKB_Mismatch", <<StageKey(1, 2)>>)
             ELSE IF stage_0_ptr # stage_1_ptr
             THEN Verdict(TRUE, "Stage_0_to_1_SKB_Mismatch", <<StageKey(0, 1)>>)
             ELSE NoLoss
    ELSE NoLoss

(***************************************************************************)
(* find_max_latency_excluding_corrupted                                    *)
(***************************************************************************)
Best(max_stage, max_latency) == [max_stage |-> max_stage, max_latency |-> max_latency]

\* the loop over path1_latencies.items(), from the running maximum acc
RECURSIVE ScanPath1(_, _, _)
ScanPath1(items, corrupted, acc) ==
    IF items = <<>> THEN acc
    ELSE LET stage_pair == Head(items).stage_pair
             latency == Head(items).latency
         IN  IF latency # 0 /\ ~InList(stage_pair, corrupted) /\ latency > acc.max_latency
             THEN ScanPath1(Tail(items), corrupted, Best("Path1_" \o stage_pair, latency))
             ELSE ScanPath1(Tail(items), corrupted, acc)

\* mutant: a later path-2 entry with an equal latency replaces the maximum
RECURSIVE ScanPath2LaterEqualWins(_, _)
ScanPath2LaterEqualWins(items, acc) ==
    IF items = <<>> THEN acc
    ELSE LET stage_pair == Head(items).stage_pair
             latency == Head(items).latency
         IN  IF latency # 0 /\ latency >= acc.max_latency
             THEN ScanPath2LaterEqualWins(Tail(items), Best("Path2_" \o stage_pair, latency))
             ELSE ScanPath2LaterEqualWins(Tail(items), acc)

\* the loop over path2_latencies.items(), from the running maximum acc
RECURSIVE ScanPath2(_, _)
ScanPath2(items, acc) ==
    IF items = <<>> THEN acc
    ELSE LET stage_pair == Head(items).stage_pair
             latency == Head(items).latency
         IN  IF latency # 0 /\ latency > acc.max_latency
             THEN ScanPath2(Tail(items), Best("Path2_" \o stage_pair, latency))
             ELSE ScanPath2(Tail(items), acc)

\* mutant: the corrupted stages are not excluded
find_max_including_corrupted(path1, path2, corrupted) ==
    ScanPath2(path2, ScanPath1(path1, <<>>, Best(None, 0)))

\* mutant: the running maximum is reset before the path-2 loop
find_max_reset_before_path2(path1, path2, corrupted) ==
    LET first == ScanPath1(path1, corrupted, Best(None, 0))
        second == ScanPath2(path2, Best(None, 0))
    IN  IF second.max_stage # None THEN second ELSE first

\* mutant: the corrupted stages are excluded from path 2 as well
find_max_excluding_corrupted_in_path2(path1, path2, corrupted) ==
    ScanPath2(SelectSeq(path2, LAMBDA item : ~InList(item.stage_pair, corrupted)),
              ScanPath1(path1, corrupted, Best(None, 0)))

find_max_latency_excluding_corrupted(path1, path2, corrupted) ==
    ScanPath2(path2, ScanPath1(path1, corrupted, Best(None, 0)))

(***************************************************************************)
(* Trace text.  A line is given by what the parser's patterns see in it:   *)
(*   timestamp  a line holding a date-time with fractional seconds         *)
(*   session    a line starting with Session:, ok iff the session pattern  *)
(*              matches it                                                 *)
(*   skb_header a line holding SKB Pointers                                *)
(*   pointer    Stage <n> ...: 0x...                                       *)
(*   path_header  Path <n> Latencies                                       *)
(*   latency    [a->b] ...: <token> us                                     *)
(*   total      Total RTT: <token> us                                      *)
(*   text       any other non-blank line;  blank  an empty line            *)
(* A token is a number, the placeholder N/A, or digits and dots that are   *)
(* no number (such as 1.2.3), which float() rejects.                       *)
(***************************************************************************)
NoRtt == -1         \* parse_total_rtt found no Total RTT line (Python None)

OUTGOING == "OUTGOING"
INCOMING == "INCOMING"

SessionIds == {7}
Seqs == {3, 4}

Number(v) == [form |-> "number", value |-> v]
NotAvailable == [form |-> "N/A", value |-> 0]
Dots == [form |-> "dots", value |-> 0]

Marker == [kind |-> "marker"]                   \* === ICMP RTT Trace:
BlankLine == [kind |-> "blank"]
TextLine == [kind |-> "text"]
TimestampLine(timestamp) == [kind |-> "timestamp", timestamp |-> timestamp]
SessionLine(src, dst, id, seq) ==
    [kind |-> "session", ok |-> TRUE, src |-> src, dst |-> dst,
     session_id |-> id, seq |-> seq]
BadSessionLine == [kind |-> "session", ok |-> FALSE]
SkbHeader == [kind |-> "skb_header"]
PointerLine(stage, pointer) == [kind |-> "pointer", stage |-> stage, pointer |-> pointer]
PathHeader(n) == [kind |-> "path_header", path |-> n]
LatencyLine(start, end, token) ==
    [kind |-> "latency", start |-> start, end |-> end, token |-> token]
TotalLine(token) == [kind |-> "total", token |-> token]

\* the lines Stage 0, Stage 1, ... of a pointer section
PointerLines(pointers) ==
    [i \in 1..Len(pointers) |-> PointerLine(i - 1, pointers[i])]

\* the lines [0->1], [1->2], ... of a latency section
LatencyLines(tokens) ==
    [i \in 1..Len(tokens) |-> LatencyLine(i - 1, i, tokens[i])]

PathSection(n, tokens) ==
    IF tokens = <<>> THEN <<>> ELSE <<PathHeader(n)>> \o LatencyLines(tokens)

\* a block as the tracer prints it: timestamp, session, pointers, the two
\* latency sections, total RTT
Block(first_line, session_lines, pointers, path1, path2, total_lines) ==
    <<first_line>> \o session_lines
        \o (IF pointers = <<>> THEN <<>> ELSE <<SkbHeader>> \o PointerLines(pointers))
        \o PathSection(1, path1) \o PathSection(2, path2) \o total_lines

Timestamp == "2025-01-01 00:00:00.000100"

\* the well-formed blocks the trace files of the run are made of: they
\* differ in their session key and print no pointers
TraceBlocks ==
    {Block(TimestampLine(Timestamp), <<SessionLine("10.0.0.1", "10.0.0.2", id, seq)>>,
           <<>>, <<Number(1)>>, <<>>, <<TotalLine(Number(2))>>)
        : id \in SessionIds, seq \in Seqs}

\* the text of a file that holds the given blocks, each after a marker
RECURSIVE FileOf(_)
FileOf(blocks) ==
    IF blocks = <<>> THEN <<>> ELSE <<Marker>> \o Head(blocks) \o FileOf(Tail(blocks))

\* a path is the sequence of its components
OutPath == <<"data", "out.log">>
InPath == <<"data", "in.log">>
Paths == {OutPath, InPath}
NoPath == <<>>      \* the file argument was not given (Python None)

\* every sequence over S of length at most n
RECURSIVE SeqsUpTo(_, _)
SeqsUpTo(S, n) ==
    IF n = 0 THEN {<<>>}
    ELSE LET shorter == SeqsUpTo(S, n - 1)
         IN  shorter \cup {Append(q, x) : q \in shorter, x \in S}

\* os.path.basename
basename(path) == path[Len(path)]

(***************************************************************************)
(* add_node_pair                                                           *)
(***************************************************************************)
SrcIps == {"10.0.0.1"}
DstIps == {"10.0.0.2"}
PairNames == {None, "P"}

add_node_pair(pairs, src_ip, dst_ip, outgoing_file, incoming_file, pair_name) ==
    Append(pairs,
           [src_ip |-> src_ip, dst_ip |-> dst_ip,
            outgoing_file |-> outgoing_file, incoming_file |-> incoming_file,
            pair_name |-> IF pair_name = None \/ pair_name = ""
                          THEN src_ip \o "->" \o dst_ip
                          ELSE pair_name])

(***************************************************************************)
(* parse_session_block and the parsers it calls                            *)
(***************************************************************************)
\* block.strip(): blank lines at either end are dropped
RECURSIVE LStrip(_)
LStrip(lines) ==
    IF lines # <<>> /\ Head(lines).kind = "blank" THEN LStrip(Tail(lines)) ELSE lines

RECURSIVE RStrip(_)
RStrip(lines) ==
    IF lines # <<>> /\ lines[Len(lines)].kind = "blank"
    THEN RStrip(SubSeq(lines, 1, Len(lines) - 1))
    ELSE lines

\* block.strip().split('\n'): the empty text splits into one empty line
SplitLines(block) ==
    LET stripped == RStrip(LStrip(block))
    IN  IF stripped = <<>> THEN <<BlankLine>> ELSE stripped

\* the loop of parse_skb_pointers, with its in_section flag and pointers dict
RECURSIVE ScanPointers(_, _, _)
ScanPointers(lines, in_section, pointers) ==
    IF lines = <<>> THEN pointers
    ELSE LET line == Head(lines)
         IN  IF line.kind = "skb_header"
             THEN ScanPointers(Tail(lines), TRUE, pointers)
             ELSE IF line.kind = "path_header"
             THEN pointers
             ELSE IF in_section /\ line.kind = "pointer"
             THEN ScanPointers(Tail(lines), in_section,
                               (line.stage :> line.pointer) @@ pointers)
             ELSE ScanPointers(Tail(lines), in_section, pointers)

parse_skb_pointers(lines) == ScanPointers(lines, FALSE, <<>>)

\* latencies[stage_key] = value: a key already present keeps its place
DictSet(latencies, stage_key, value) ==
    IF \E i \in DOMAIN latencies : latencies[i].stage_pair = stage_key
    THEN [i \in DOMAIN latencies |->
             IF latencies[i].stage_pair = stage_key
             THEN Entry(stage_key, value) ELSE latencies[i]]
    ELSE Append(latencies, Entry(stage_key, value))

\* what a parser returns, or the exception it raises
Returned(value) == [raised |-> FALSE, value |-> value]
Raised == [raised |-> TRUE, value |-> <<>>]

\* mutant: the placeholder is stored as 0
RECURSIVE ScanLatenciesStoringZero(_, _, _, _)
ScanLatenciesStoringZero(lines, n, in_section, latencies) ==
    IF lines = <<>> THEN Returned(latencies)
    ELSE LET line == Head(lines)
         IN  IF line.kind = "path_header" /\ line.path = n
             THEN ScanLatenciesStoringZero(Tail(lines), n, TRUE, latencies)
             ELSE IF line.kind \in {"path_header", "total"} /\ in_section
             THEN Returned(latencies)
             ELSE IF in_section /\ line.kind = "latency"
             THEN IF line.token.form = "dots" THEN Raised
                  ELSE ScanLatenciesStoringZero(Tail(lines), n, in_section,
                           DictSet(latencies, StageKey(line.start, line.end),
                                   line.token.value))
             ELSE ScanLatenciesStoringZero(Tail(lines), n, in_section, latencies)

\* the loop of parse_path_latencies for the section Path <n> Latencies, with
\* its in_section flag and latencies dict; float() raises on digits and
\* dots that are no number
RECURSIVE ScanLatencies(_, _, _, _)
ScanLatencies(lines, n, in_section, latencies) ==
    IF lines = <<>> THEN Returned(latencies)
    ELSE LET line == Head(lines)
         IN  IF line.kind = "path_header" /\ line.path = n
             THEN ScanLatencies(Tail(lines), n, TRUE, latencies)
             ELSE IF line.kind \in {"path_header", "total"} /\ in_section
             THEN Returned(latencies)
             ELSE IF in_section /\ line.kind = "latency"
             THEN IF line.token.form = "N/A"
                  THEN ScanLatencies(Tail(lines), n, in_section, latencies)
                  ELSE IF line.token.form = "dots" THEN Raised
                  ELSE ScanLatencies(Tail(lines), n, in_section,
                           DictSet(latencies, StageKey(line.start, line.end),
                                   line.token.value))
             ELSE ScanLatencies(Tail(lines), n, in_section, latencies)

parse_path_latencies(lines, n) == ScanLatencies(lines, n, FALSE, <<>>)

\* the first Total RTT line that holds digits before us decides
RECURSIVE parse_total_rtt(_)
parse_total_rtt(lines) ==
    IF lines = <<>> THEN Returned(NoRtt)
    ELSE LET line == Head(lines)
         IN  IF line.kind = "total" /\ line.token.form # "N/A"
             THEN IF line.token.form = "dots" THEN Raised
                  ELSE Returned(line.token.value)
             ELSE parse_total_rtt(Tail(lines))

\* the values returned for a block that yields no record: None after a
\* return, and None after the except branch printed the error
NoSession == [parsed |-> FALSE, error |-> FALSE]
ParseError == [parsed |-> FALSE, error |-> TRUE]

\* next(line for line in lines if line.startswith('Session:')), 0 if none
FirstSessionLine(lines) ==
    LET found == {i \in DOMAIN lines : lines[i].kind = "session"}
    IN  IF found = {} THEN 0 ELSE CHOOSE i \in found : \A j \in found : i <= j

\* mutant: the resolver runs with an empty list of corrupted stages
parse_session_block_resolving_before_detecting(block, direction, source_file, src_ip, dst_ip) ==
    LET lines == SplitLines(block)
        at == FirstSessionLine(lines)
    IN  IF lines[1].kind # "timestamp" THEN NoSession
        ELSE IF at = 0 THEN NoSession
        ELSE IF ~lines[at].ok THEN NoSession
        ELSE LET pointers == parse_skb_pointers(lines)
                 verdict == detect_packet_loss(pointers)
                 path1 == parse_path_latencies(lines, 1)
                 path2 == parse_path_latencies(lines, 2)
                 total_rtt == parse_total_rtt(lines)
                 best == find_max_latency_excluding_corrupted(
                             path1.value, path2.value, <<>>)
             IN  IF path1.raised \/ path2.raised \/ total_rtt.raised THEN ParseError
                 ELSE [parsed |-> TRUE, error |-> FALSE,
                       timestamp |-> lines[1].timestamp,
                       direction |-> direction,
                       source_file |-> source_file,
                       src_ip |-> src_ip,
                       dst_ip |-> dst_ip,
                       session_id |-> lines[at].session_id,
                       seq |-> lines[at].seq,
                       drop |-> verdict.drop,
                       drop_reason |-> verdict.drop_reason,
                       corrupted_stages |-> verdict.corrupted_stages,
                       skb_pointers |-> pointers,
                       total_rtt |-> total_rtt.value,
                       max_stage |-> best.max_stage,
                       max_latency |-> best.max_latency,
                       path1_latencies |-> path1.value,
                       path2_latencies |-> path2.value,
                       session_line_src |-> lines[at].src,
                       session_line_dst |-> lines[at].dst]

parse_session_block(block, direction, source_file, src_ip, dst_ip) ==
    LET lines == SplitLines(block)
        at == FirstSessionLine(lines)
    IN  IF lines[1].kind # "timestamp" THEN NoSession
        ELSE IF at = 0 THEN NoSession
        ELSE IF ~lines[at].ok THEN NoSession
        ELSE LET pointers == parse_skb_pointers(lines)
                 verdict == detect_packet_loss(pointers)
                 path1 == parse_path_latencies(lines, 1)
                 path2 == parse_path_latencies(lines, 2)
                 total_rtt == parse_total_rtt(lines)
                 best == find_max_latency_excluding_corrupted(
                             path1.value, path2.value, verdict.corrupted_stages)
             IN  IF path1.raised \/ path2.raised \/ total_rtt.raised THEN ParseError
                 ELSE [parsed |-> TRUE, error |-> FALSE,
                       timestamp |-> lines[1].timestamp,
                       direction |-> direction,
                       source_file |-> source_file,
                       src_ip |-> src_ip,
                       dst_ip |-> dst_ip,
                       session_id |-> lines[at].session_id,
                       seq |-> lines[at].seq,
                       drop |-> verdict.drop,
                       drop_reason |-> verdict.drop_reason,
                       corrupted_stages |-> verdict.corrupted_stages,
                       skb_pointers |-> pointers,
                       total_rtt |-> total_rtt.value,
                       max_stage |-> best.max_stage,
                       max_latency |-> best.max_latency,
                       path1_latencies |-> path1.value,
                       path2_latencies |-> path2.value,
                       session_line_src |-> lines[at].src,
                       session_line_dst |-> lines[at].dst]

(***************************************************************************)
(* parse_log_file, load_and_parse_data.  files maps each path that exists  *)
(* to the text of the file: markers and lines.  A function that prints is  *)
(* given by the sessions it returns and the lines it prints (stdout).      *)
(***************************************************************************)
StartLine == [kind |-> "start"]             \* Starting to load network latency data...
PairLine(pair_name) == [kind |-> "pair", pair_name |-> pair_name]
WarningLine(file_path) == [kind |-> "warning", file_path |-> file_path]
ErrorLine == [kind |-> "error"]             \* Error parsing session: ...
CountLine(direction, source_file, n) ==
    [kind |-> "sessions", direction |-> direction, source_file |-> source_file,
     sessions |-> n]
TotalLoadedLine(n, pairs) == [kind |-> "total", sessions |-> n, node_pairs |-> pairs]

Output(sessions_, stdout_) == [sessions |-> sessions_, stdout |-> stdout_]

\* re.split(marker, content): the pieces of text between the markers, the
\* last of which, piece, is still growing
RECURSIVE SplitFrom(_, _, _)
SplitFrom(content, pieces, piece) ==
    IF content = <<>> THEN Append(pieces, piece)
    ELSE IF Head(content).kind = "marker"
    THEN SplitFrom(Tail(content), Append(pieces, piece), <<>>)
    ELSE SplitFrom(Tail(content), pieces, Append(piece, Head(content)))

re_split(content) == SplitFrom(content, <<>>, <<>>)

\* mutant: the text before the first marker is a block as well
SessionBlocksWithFirstPiece(content) == re_split(content)

\* session_blocks[1:]
SessionBlocks(content) == Tail(re_split(content))

\* the value of parse_session_block for each block of the loop
ParseBlocks(blocks, direction, source_file, src_ip, dst_ip) ==
    [i \in DOMAIN blocks |->
        parse_session_block(blocks[i], direction, source_file, src_ip, dst_ip)]

\* the loop of parse_log_file over the values of parse_session_block:
\* if session: sessions.append(session); an error was printed by the parser
LogFileOutput(results) ==
    Output(SelectSeq(results, LAMBDA result : result.parsed),
           [i \in DOMAIN SelectSeq(results, LAMBDA result : result.error) |-> ErrorLine])

parse_log_file(files, file_path, direction, source_file, src_ip, dst_ip) ==
    IF file_path \notin DOMAIN files
    THEN Output(<<>>, <<WarningLine(file_path)>>)
    ELSE LogFileOutput(ParseBlocks(SessionBlocks(files[file_path]), direction,
                                   source_file, src_ip, dst_ip))

\* mutant: the loop that adds the pair identifier also resets the largest
\* latency of the record
SetPairNameResettingMax(session, pair_name) ==
    [pair_name |-> pair_name, max_stage |-> None, max_latency |-> 0] @@ session

\* session['pair_name'] = pair['pair_name']
SetPairName(session, pair_name) == [pair_name |-> pair_name] @@ session

\* pair_sessions.extend(sessions) and the print of the number of sessions
DirectionOutput(parsed, direction, source_file) ==
    Output(parsed.sessions,
           parsed.stdout \o <<CountLine(direction, source_file, Len(parsed.sessions))>>)

\* one direction of one iteration of the loop over self.node_pairs
ParseDirection(files, pair, file_path, direction) ==
    IF file_path = NoPath THEN Output(<<>>, <<>>)
    ELSE DirectionOutput(parse_log_file(files, file_path, direction,
                                        basename(file_path), pair.src_ip, pair.dst_ip),
                         direction, basename(file_path))

\* the pair's sessions with their pair identifier, and the lines printed
PairOutput(out, inc, pair_name) ==
    Output([i \in 1..(Len(out.sessions) + Len(inc.sessions)) |->
               SetPairName((out.sessions \o inc.sessions)[i], pair_name)],
           <<PairLine(pair_name)>> \o out.stdout \o inc.stdout)

\* mutant: a missing outgoing file ends the iteration of the pair
PairSessionsEndingAtMissing(files, pair) ==
    IF pair.outgoing_file \notin DOMAIN files
    THEN Output(<<>>, <<PairLine(pair.pair_name)>>)
    ELSE PairOutput(ParseDirection(files, pair, pair.outgoing_file, OUTGOING),
                    ParseDirection(files, pair, pair.incoming_file, INCOMING),
                    pair.pair_name)

\* one iteration of the loop over self.node_pairs
PairSessions(files, pair) ==
    PairOutput(ParseDirection(files, pair, pair.outgoing_file, OUTGOING),
               ParseDirection(files, pair, pair.incoming_file, INCOMING),
               pair.pair_name)

\* self.sessions.extend(pair_sessions), for the p-th node pair; origin gives,
\* for each loaded session, the index of the node pair whose iteration
\* parsed it
ExtendLoad(before, pair, p) ==
    [sessions |-> before.sessions \o pair.sessions,
     origin |-> before.origin \o [i \in 1..Len(pair.sessions) |-> p],
     stdout |-> before.stdout \o pair.stdout]

\* the loop over self.node_pairs
RECURSIVE LoadPairs(_, _)
LoadPairs(files, pairs) ==
    IF pairs = <<>> THEN [sessions |-> <<>>, origin |-> <<>>, stdout |-> <<>>]
    ELSE ExtendLoad(LoadPairs(files, SubSeq(pairs, 1, Len(pairs) - 1)),
                    PairSessions(files, pairs[Len(pairs)]), Len(pairs))

\* the first and the last line printed, around those of the loop
LoadOutput(loaded, n) ==
    [sessions |-> loaded.sessions,
     origin |-> loaded.origin,
     stdout |-> <<StartLine>> \o loaded.stdout
                    \o <<TotalLoadedLine(Len(loaded.sessions), n)>>]

\* self.sessions, the origin of each session, and the lines printed
load_and_parse_data(files, pairs) == LoadOutput(LoadPairs(files, pairs), Len(pairs))

(***************************************************************************)
(* match_session_pairs_for_all_nodes.  ss is self.sessions; a session is   *)
(* referred to by its index in ss.                                         *)
(***************************************************************************)
Indexes(ss) == [i \in 1..Len(ss) |-> i]

\* (session['session_id'], session['seq'])
SessionKey(session) == <<session.session_id, session.seq>>

\* the keys of sessions_by_pair in insertion order, each given by the first
\* session that carries it
GroupLeaders(ss) ==
    SelectSeq(Indexes(ss),
              LAMBDA i : \A j \in 1..(i - 1) : ss[j].pair_name # ss[i].pair_name)

\* mutant: the sessions are not grouped by pair_name
GroupMembersUngrouped(ss, pair_name) == Indexes(ss)

\* sessions_by_pair[pair_name]
GroupMembers(ss, pair_name) ==
    SelectSeq(Indexes(ss), LAMBDA i : ss[i].pair_name = pair_name)

\* [s for s in pair_sessions if s['direction'] == direction]
ByDirection(ss, pair_sessions, direction) ==
    SelectSeq(pair_sessions, LAMBDA i : ss[i].direction = direction)

\* the dict built by the loop over incoming_sessions: a later session
\* replaces an earlier one under the same key
RECURSIVE incoming_lookup(_, _)
incoming_lookup(ss, incoming_sessions) ==
    IF incoming_sessions = <<>> THEN <<>>
    ELSE LET n == Len(incoming_sessions)
             session == incoming_sessions[n]
         IN  (SessionKey(ss[session]) :> session)
                 @@ incoming_lookup(ss, SubSeq(incoming_sessions, 1, n - 1))

\* the loop over outgoing_sessions: the pairs appended to matched_pairs
RECURSIVE MatchedPairs(_, _, _)
MatchedPairs(ss, outgoing_sessions, lookup) ==
    IF outgoing_sessions = <<>> THEN <<>>
    ELSE LET outgoing == Head(outgoing_sessions)
             key == SessionKey(ss[outgoing])
             rest == MatchedPairs(ss, Tail(outgoing_sessions), lookup)
         IN  IF key \in DOMAIN lookup
             THEN <<[outgoing |-> outgoing, incoming |-> lookup[key]]>> \o rest
             ELSE rest

\* mutant: every outgoing session is appended to outgoing_only
OutgoingOnlyWithoutElse(ss, outgoing_sessions, lookup) == outgoing_sessions

\* the loop over outgoing_sessions: the sessions appended to outgoing_only
OutgoingOnly(ss, outgoing_sessions, lookup) ==
    SelectSeq(outgoing_sessions, LAMBDA i : SessionKey(ss[i]) \notin DOMAIN lookup)

\* set((out['session_id'], out['seq']) for out, _ in matched_pairs)
MatchedKeys(ss, matched_pairs) ==
    {SessionKey(ss[matched_pairs[n].outgoing]) : n \in DOMAIN matched_pairs}

\* mutant: every incoming session is appended to incoming_only
IncomingOnlyUnfiltered(ss, incoming_sessions, matched_pairs) == incoming_sessions

IncomingOnly(ss, incoming_sessions, matched_pairs) ==
    SelectSeq(incoming_sessions,
              LAMBDA i : SessionKey(ss[i]) \notin MatchedKeys(ss, matched_pairs))

Matching(matched_pairs, outgoing_only, incoming_only) ==
    [matched_pairs |-> matched_pairs, outgoing_only |-> outgoing_only,
     incoming_only |-> incoming_only]

\* the body of the loop over sessions_by_pair.items()
MatchGroup(ss, pair_sessions) ==
    LET outgoing_sessions == ByDirection(ss, pair_sessions, OUTGOING)
        incoming_sessions == ByDirection(ss, pair_sessions, INCOMING)
        lookup == incoming_lookup(ss, incoming_sessions)
        matched_pairs == MatchedPairs(ss, outgoing_sessions, lookup)
    IN  Matching(matched_pairs,
                 OutgoingOnly(ss, outgoing_sessions, lookup),
                 IncomingOnly(ss, incoming_sessions, matched_pairs))

\* the loop over sessions_by_pair.items(), extending the three result lists
RECURSIVE MatchGroups(_, _)
MatchGroups(ss, leaders) ==
    IF leaders = <<>> THEN Matching(<<>>, <<>>, <<>>)
    ELSE LET n == Len(leaders)
             before == MatchGroups(ss, SubSeq(leaders, 1, n - 1))
             group == MatchGroup(ss, GroupMembers(ss, ss[leaders[n]].pair_name))
         IN  Matching(before.matched_pairs \o group.matched_pairs,
                      before.outgoing_only \o group.outgoing_only,
                      before.incoming_only \o group.incoming_only)

match_session_pairs_for_all_nodes(ss) == MatchGroups(ss, GroupLeaders(ss))

(***************************************************************************)
(* analyze_single_session_pair, analyze_single_unidirectional_session,     *)
(* generate_analysis_report.  The fields outgoing and incoming of an       *)
(* analysis refer to session dicts, hence hold indexes in ss.  Total RTTs  *)
(* in the traces of the model are even, which makes the halving exact.     *)
(***************************************************************************)
NoDelay == -1                   \* 'physical_network_delay': None
FpingProcessingDelay == 50      \* Assume fixed 50us

Abs(x) == IF x < 0 THEN -x ELSE x

\* the truth value Python gives a total_rtt: None and 0.0 are false
Truthy(total_rtt) == total_rtt # NoRtt /\ total_rtt # 0

\* f"{direction}_{value}"
Tagged(direction, value) == direction \o "_" \o value

\* f"{outgoing['src_ip']}->{outgoing['dst_ip']}"
DirectionOf(session) == session.src_ip \o "->" \o session.dst_ip

\* mutant: only the outgoing direction decides the loss
DropOfOutgoing(outgoing_session, incoming_session) == outgoing_session.drop

\* outgoing_session['drop'] or incoming_session['drop']
CombinedDrop(outgoing_session, incoming_session) ==
    outgoing_session.drop \/ incoming_session.drop

\* mutant: the incoming reason is recorded first
DropDetailsIncomingFirst(outgoing_session, incoming_session) ==
    (IF incoming_session.drop
     THEN <<Tagged(INCOMING, incoming_session.drop_reason)>> ELSE <<>>)
        \o (IF outgoing_session.drop
            THEN <<Tagged(OUTGOING, outgoing_session.drop_reason)>> ELSE <<>>)

\* the two appends to combined_analysis['drop_details']
DropDetails(outgoing_session, incoming_session) ==
    (IF outgoing_session.drop
     THEN <<Tagged(OUTGOING, outgoing_session.drop_reason)>> ELSE <<>>)
        \o (IF incoming_session.drop
            THEN <<Tagged(INCOMING, incoming_session.drop_reason)>> ELSE <<>>)

\* mutant: the outgoing direction wins only when strictly larger
OverallMaxStrict(outgoing_session, incoming_session) ==
    IF outgoing_session.max_latency > incoming_session.max_latency
    THEN Best(Tagged(OUTGOING, outgoing_session.max_stage), outgoing_session.max_latency)
    ELSE Best(Tagged(INCOMING, incoming_session.max_stage), incoming_session.max_latency)

\* Determine overall max latency stage
OverallMax(outgoing_session, incoming_session) ==
    IF outgoing_session.max_latency >= incoming_session.max_latency
    THEN Best(Tagged(OUTGOING, outgoing_session.max_stage), outgoing_session.max_latency)
    ELSE Best(Tagged(INCOMING, incoming_session.max_stage), incoming_session.max_latency)

\* Calculate physical network delay
PhysicalNetworkDelay(outgoing_session, incoming_session) ==
    IF Truthy(outgoing_session.total_rtt) /\ Truthy(incoming_session.total_rtt)
    THEN Abs(outgoing_session.total_rtt - incoming_session.total_rtt) \div 2
    ELSE NoDelay

analyze_single_session_pair(ss, outgoing, incoming, session_key) ==
    LET outgoing_session == ss[outgoing]
        incoming_session == ss[incoming]
        overall == OverallMax(outgoing_session, incoming_session)
    IN  [session_key |-> session_key,
         pair_name |-> outgoing_session.pair_name,
         session_type |-> "bidirectional",
         outgoing |-> outgoing,
         incoming |-> incoming,
         direction |-> DirectionOf(outgoing_session),
         session_id |-> outgoing_session.session_id,
         seq |-> outgoing_session.seq,
         drop |-> CombinedDrop(outgoing_session, incoming_session),
         drop_details |-> DropDetails(outgoing_session, incoming_session),
         outgoing_max_stage |-> outgoing_session.max_stage,
         outgoing_max_latency |-> outgoing_session.max_latency,
         incoming_max_stage |-> incoming_session.max_stage,
         incoming_max_latency |-> incoming_session.max_latency,
         max_stage |-> overall.max_stage,
         max_latency |-> overall.max_latency,
         physical_network_delay |-> PhysicalNetworkDelay(outgoing_session, incoming_session),
         fping_processing_delay |-> FpingProcessingDelay,
         outgoing_path1_latencies |-> outgoing_session.path1_latencies,
         outgoing_path2_latencies |-> outgoing_session.path2_latencies,
         incoming_path1_latencies |-> incoming_session.path1_latencies,
         incoming_path2_latencies |-> incoming_session.path2_latencies,
         outgoing_total_rtt |-> outgoing_session.total_rtt,
         incoming_total_rtt |-> incoming_session.total_rtt,
         is_bidirectional |-> TRUE,
         available_directions |-> <<OUTGOING, INCOMING>>]

\* mutant: the reason is recorded without its direction tag
UnidirectionalDropDetailsUntagged(session, session_type) ==
    IF session.drop THEN <<session.drop_reason>> ELSE <<>>

\* [f"{session_type}_{session['drop_reason']}"] if session['drop'] else []
UnidirectionalDropDetails(session, session_type) ==
    IF session.drop THEN <<Tagged(session_type, session.drop_reason)>> ELSE <<>>

analyze_single_unidirectional_session(session, session_key, session_type) ==
    [session_key |-> session_key,
     pair_name |-> session.pair_name,
     session_type |-> "unidirectional",
     direction_type |-> session_type,
     direction |-> DirectionOf(session),
     session_id |-> session.session_id,
     seq |-> session.seq,
     timestamp |-> session.timestamp,
     drop |-> session.drop,
     drop_details |-> UnidirectionalDropDetails(session, session_type),
     max_stage |-> session.max_stage,
     max_latency |-> session.max_latency,
     total_rtt |-> session.total_rtt,
     path1_latencies |-> session.path1_latencies,
     path2_latencies |-> session.path2_latencies,
     is_bidirectional |-> FALSE,
     available_direction |-> session_type]

\* f"{pair_name}_{session_id}_{seq}"
PairKey(session) ==
    session.pair_name \o "_" \o ToString(session.session_id)
        \o "_" \o ToString(session.seq)

\* f"{pair_name}_{session_type}_{session_id}_{seq}"
UnidirectionalKey(session, session_type) ==
    session.pair_name \o "_" \o session_type \o "_" \o ToString(session.session_id)
        \o "_" \o ToString(session.seq)

\* mutant: the unidirectional analyses lose their timestamp
AnalysesWithoutTimestamp(ss, m) ==
    [n \in DOMAIN m.matched_pairs |->
        analyze_single_session_pair(ss, m.matched_pairs[n].outgoing,
            m.matched_pairs[n].incoming, PairKey(ss[m.matched_pairs[n].outgoing]))]
    \o [n \in DOMAIN m.outgoing_only |->
        LET analysis == analyze_single_unidirectional_session(ss[m.outgoing_only[n]],
                UnidirectionalKey(ss[m.outgoing_only[n]], OUTGOING), OUTGOING)
        IN  [f \in DOMAIN analysis \ {"timestamp"} |-> analysis[f]]]
    \o [n \in DOMAIN m.incoming_only |->
        LET analysis == analyze_single_unidirectional_session(ss[m.incoming_only[n]],
                UnidirectionalKey(ss[m.incoming_only[n]], INCOMING), INCOMING)
        IN  [f \in DOMAIN analysis \ {"timestamp"} |-> analysis[f]]]

\* the three loops of generate_analysis_report: the analyses in the order made
Analyses(ss, m) ==
    [n \in DOMAIN m.matched_pairs |->
        analyze_single_session_pair(ss, m.matched_pairs[n].outgoing,
            m.matched_pairs[n].incoming, PairKey(ss[m.matched_pairs[n].outgoing]))]
    \o [n \in DOMAIN m.outgoing_only |->
        analyze_single_unidirectional_session(ss[m.outgoing_only[n]],
            UnidirectionalKey(ss[m.outgoing_only[n]], OUTGOING), OUTGOING)]
    \o [n \in DOMAIN m.incoming_only |->
        analyze_single_unidirectional_session(ss[m.incoming_only[n]],
            UnidirectionalKey(ss[m.incoming_only[n]], INCOMING), INCOMING)]

\* mutant: every analysis is appended to valid_sessions, the dropped ones too
AnalysisResultAllValid(m, analyses, pairs) ==
    [node_pairs |-> [i \in DOMAIN pairs |->
                        [pair_name |-> pairs[i].pair_name,
                         src_ip |-> pairs[i].src_ip,
                         dst_ip |-> pairs[i].dst_ip,
                         direction |-> DirectionOf(pairs[i])]],
     total_sessions |-> Len(m.matched_pairs) + Len(m.outgoing_only)
                            + Len(m.incoming_only),
     matched_sessions |-> Len(m.matched_pairs),
     outgoing_only |-> Len(m.outgoing_only),
     incoming_only |-> Len(m.incoming_only),
     valid_sessions |-> analyses,
     dropped_sessions |-> SelectSeq(analyses, LAMBDA analysis : analysis.drop)]

\* analysis_result['analysis'] except its timestamp, the time of the run
AnalysisResult(m, analyses, pairs) ==
    [node_pairs |-> [i \in DOMAIN pairs |->
                        [pair_name |-> pairs[i].pair_name,
                         src_ip |-> pairs[i].src_ip,
                         dst_ip |-> pairs[i].dst_ip,
                         direction |-> DirectionOf(pairs[i])]],
     total_sessions |-> Len(m.matched_pairs) + Len(m.outgoing_only)
                            + Len(m.incoming_only),
     matched_sessions |-> Len(m.matched_pairs),
     outgoing_only |-> Len(m.outgoing_only),
     incoming_only |-> Len(m.incoming_only),
     valid_sessions |-> SelectSeq(analyses, LAMBDA analysis : ~analysis.drop),
     dropped_sessions |-> SelectSeq(analyses, LAMBDA analysis : analysis.drop)]

\* the report made from the result m of the matcher
ReportOf(ss, pairs, m) == AnalysisResult(m, Analyses(ss, m), pairs)

generate_analysis_report(ss, pairs) ==
    ReportOf(ss, pairs, match_session_pairs_for_all_nodes(ss))

NoReport == generate_analysis_report(<<>>, <<>>)

(***************************************************************************)
(* general_summary_generator.py: analyze_sessions reads the report the     *)
(* analyzer saved and counts sessions per stage and per drop reason.  A    *)
(* Counter is the function from the keys counted to their counts.  The     *)
(* statistics of the latencies (mean, median, percentiles) and the same     *)
(* counts per node pair (pair_analysis) are left out.                      *)
(***************************************************************************)
Counter(keys) ==
    [key \in {keys[i] : i \in DOMAIN keys} |->
        Cardinality({i \in DOMAIN keys : keys[i] = key})]

\* get_latency_range_label: latency_us / 1000 against the limits in ms
get_latency_range_label(latency_us) ==
    IF latency_us < 10 * 1000 THEN "0-10ms"
    ELSE IF latency_us < 100 * 1000 THEN "10-100ms"
    ELSE IF latency_us < 500 * 1000 THEN "100-500ms"
    ELSE IF latency_us < 1000 * 1000 THEN "500-1000ms"
    ELSE IF latency_us < 3000 * 1000 THEN "1000-3000ms"
    ELSE IF latency_us < 60000 * 1000 THEN "3000-60000ms"
    ELSE ">60000ms"

\* if max_stage: a stage label counts unless it is None (or empty)
HasStage(session) == session.max_stage # None /\ session.max_stage # ""

\* max_latency > 0
WithLatency(valid_sessions) ==
    SelectSeq(valid_sessions, LAMBDA session : session.max_latency > 0)

\* latency_ms = max_latency / 1000; latency_ms >= 10
Above10ms(valid_sessions) ==
    SelectSeq(WithLatency(valid_sessions),
              LAMBDA session : session.max_latency >= 10 * 1000)

MaxStages(analysed) ==
    LET staged == SelectSeq(analysed, LAMBDA session : HasStage(session))
    IN  [i \in DOMAIN staged |-> staged[i].max_stage]

RangeLabels(analysed) ==
    [i \in DOMAIN analysed |-> get_latency_range_label(analysed[i].max_latency)]

\* for reason in drop_details, over the dropped sessions in order
RECURSIVE DropReasons(_)
DropReasons(dropped_sessions) ==
    IF dropped_sessions = <<>> THEN <<>>
    ELSE Head(dropped_sessions).drop_details \o DropReasons(Tail(dropped_sessions))

\* dropped_stage_distribution
DroppedStages(dropped_sessions) == Counter(MaxStages(dropped_sessions))

analyze_sessions(analysis) ==
    [node_pairs |-> analysis.node_pairs,
     total_sessions |-> analysis.total_sessions,
     matched_sessions |-> analysis.matched_sessions,
     outgoing_only |-> analysis.outgoing_only,
     incoming_only |-> analysis.incoming_only,
     overall_analysis |->
        [total_valid_sessions |-> Len(analysis.valid_sessions),
         sessions_with_latency |-> Len(WithLatency(analysis.valid_sessions)),
         latency_distribution |->
             Counter(RangeLabels(WithLatency(analysis.valid_sessions))),
         latency_distribution_above_10ms |->
             Counter(RangeLabels(Above10ms(analysis.valid_sessions))),
         stage_distribution |-> Counter(MaxStages(Above10ms(analysis.valid_sessions)))],
     dropped_sessions_analysis |->
        [total_dropped_sessions |-> Len(analysis.dropped_sessions),
         stage_distribution |-> DroppedStages(analysis.dropped_sessions),
         drop_reason_distribution |-> Counter(DropReasons(analysis.dropped_sessions))]]

NoSummary == analyze_sessions(NoReport)

(***************************************************************************)
(* The run: main configures the node pairs, loads the traces, and matches. *)
(***************************************************************************)
TraceFiles == [Paths -> {FileOf(blocks) : blocks \in SeqsUpTo(TraceBlocks, MaxBlocks)}]

NoVerdictYet == NoLoss
NothingResolved == Best(None, 0)
NothingMatched == Matching(<<>>, <<>>, <<>>)

UnitIdle ==
    /\ skb_pointers = <<>>
    /\ loss = NoVerdictYet
    /\ path1_latencies = <<>>
    /\ path2_latencies = <<>>
    /\ corrupted_stages = <<>>
    /\ resolved = NothingResolved

ParseIdle ==
    /\ block_in = <<>>
    /\ record = NoSession
    /\ latencies_out = Returned(<<>>)

RunIdle ==
    /\ fs = <<>>
    /\ node_pairs = <<>>
    /\ sessions = <<>>
    /\ origin = <<>>
    /\ stdout = <<>>
    /\ matching = NothingMatched
    /\ report = NoReport
    /\ summary = NoSummary

Init ==
    /\ pc = "config"
    /\ UnitIdle
    /\ ParseIdle
    /\ fs \in TraceFiles
    /\ node_pairs = <<>>
    /\ sessions = <<>>
    /\ origin = <<>>
    /\ stdout = <<>>
    /\ matching = NothingMatched
    /\ report = NoReport
    /\ summary = NoSummary

AddNodePair ==
    /\ pc = "config"
    /\ Len(node_pairs) < MaxPairs
    /\ \E src_ip \in SrcIps, dst_ip \in DstIps, incoming_file \in {NoPath, InPath},
          pair_name \in PairNames :
           node_pairs' = add_node_pair(node_pairs, src_ip, dst_ip, OutPath,
                                       incoming_file, pair_name)
    /\ UNCHANGED <<pc, unit_vars, parse_vars, fs, sessions, origin, stdout,
                   matching, report, summary>>

\* self.sessions is assigned, and the lines are printed
Loaded(loaded) ==
    /\ sessions' = loaded.sessions
    /\ origin' = loaded.origin
    /\ stdout' = loaded.stdout

LoadAndParseData ==
    /\ pc = "config"
    /\ Loaded(load_and_parse_data(fs, node_pairs))
    /\ pc' = "loaded"
    /\ UNCHANGED <<unit_vars, parse_vars, fs, node_pairs, matching, report, summary>>

MatchSessionPairs ==
    /\ pc = "loaded"
    /\ matching' = match_session_pairs_for_all_nodes(sessions)
    /\ pc' = "matched"
    /\ UNCHANGED <<unit_vars, parse_vars, fs, node_pairs, sessions, origin,
                   stdout, report, summary>>

Next == AddNodePair \/ LoadAndParseData \/ MatchSessionPairs

Spec == Init /\ [][Next]_vars

(***************************************************************************)
(* The analysis of one configured node pair whose two trace files hold one *)
(* block each: main loads the traces and generates the report.             *)
(***************************************************************************)
MaxRtt == 2

\* the total RTTs printed in the traces
Rtts == {2 * k : k \in 0..MaxRtt}

\* pointers that give no loss, a 0->1 mismatch, a 1->2 mismatch
PointerCases ==
    {<<"0xAA", "0xAA", "0xAA">>, <<"0xAA", "0xBB", "0xBB">>, <<"0xAA", "0xAA", "0xBB">>}

LatencyTokens == {Number(v) : v \in Latencies} \cup {NotAvailable}

\* a latency of 10 ms, from which the summary counts the stage of a session
SlowLatency == 10 * 1000

AnalyzeBlocks(seqs) ==
    {Block(TimestampLine(Timestamp), <<SessionLine("10.0.0.1", "10.0.0.2", id, seq)>>,
           pointers, <<token>>, <<>>, total_lines)
        : id \in SessionIds, seq \in seqs, pointers \in PointerCases,
          token \in LatencyTokens \cup {Number(SlowLatency)},
          total_lines \in {<<>>} \cup {<<TotalLine(Number(rtt))>> : rtt \in Rtts}}

AnalyzeFiles ==
    {(OutPath :> FileOf(<<out>>)) @@ (InPath :> FileOf(<<inc>>))
        : out \in AnalyzeBlocks({3}), inc \in AnalyzeBlocks(Seqs)}

InitAnalyze ==
    /\ pc = "config"
    /\ UnitIdle
    /\ ParseIdle
    /\ fs \in AnalyzeFiles
    /\ node_pairs = add_node_pair(<<>>, "10.0.0.1", "10.0.0.2", OutPath, InPath, None)
    /\ sessions = <<>>
    /\ origin = <<>>
    /\ stdout = <<>>
    /\ matching = NothingMatched
    /\ report = NoReport
    /\ summary = NoSummary

GenerateAnalysisReport ==
    /\ pc = "loaded"
    /\ matching' = match_session_pairs_for_all_nodes(sessions)
    /\ report' = generate_analysis_report(sessions, node_pairs)
    /\ pc' = "reported"
    /\ UNCHANGED <<unit_vars, parse_vars, fs, node_pairs, sessions, origin, stdout,
                   summary>>

\* general_summary_generator.py reads the saved report
AnalyzeSessions ==
    /\ pc = "reported"
    /\ summary' = analyze_sessions(report)
    /\ pc' = "summarized"
    /\ UNCHANGED <<unit_vars, parse_vars, fs, node_pairs, sessions, origin, stdout,
                   matching, report>>

NextAnalyze == LoadAndParseData \/ GenerateAnalysisReport \/ AnalyzeSessions

SpecAnalyze == InitAnalyze /\ [][NextAnalyze]_vars

(***************************************************************************)
(* load_and_parse_data over files that may be missing and may hold blocks  *)
(* without a timestamp or with a latency that is no number                 *)
(***************************************************************************)
GoodBlock ==
    Block(TimestampLine(Timestamp), <<SessionLine("10.0.0.1", "10.0.0.2", 7, 3)>>,
          <<"0xAA", "0xAA", "0xAA">>, <<Number(1)>>, <<>>, <<TotalLine(Number(2))>>)

NoTimestampBlock ==
    Block(TextLine, <<SessionLine("10.0.0.1", "10.0.0.2", 7, 3)>>,
          <<"0xAA", "0xAA", "0xAA">>, <<Number(1)>>, <<>>, <<TotalLine(Number(2))>>)

DotsBlock ==
    Block(TimestampLine(Timestamp), <<SessionLine("10.0.0.1", "10.0.0.2", 7, 3)>>,
          <<"0xAA", "0xAA", "0xAA">>, <<Dots>>, <<>>, <<TotalLine(Number(2))>>)

LoadBlocks(path) == IF path = OutPath THEN {GoodBlock, NoTimestampBlock}
                    ELSE {GoodBlock, DotsBlock}

\* the files on disk: each of the two paths may be missing
LoadFiles ==
    UNION {{f \in [D -> {FileOf(blocks) :
                            blocks \in SeqsUpTo({GoodBlock, NoTimestampBlock, DotsBlock},
                                                MaxBlocks)}] :
              \A path \in D : \E blocks \in SeqsUpTo(LoadBlocks(path), MaxBlocks) :
                                  f[path] = FileOf(blocks)}
           : D \in SUBSET Paths}

InitLoad ==
    /\ pc = "config"
    /\ UnitIdle
    /\ ParseIdle
    /\ fs \in LoadFiles
    /\ node_pairs = <<>>
    /\ sessions = <<>>
    /\ origin = <<>>
    /\ stdout = <<>>
    /\ matching = NothingMatched
    /\ report = NoReport
    /\ summary = NoSummary

\* main calls add_node_pair with the files of the command line, each of
\* which may be left out
AddNodePairAnyFiles ==
    /\ pc = "config"
    /\ Len(node_pairs) < MaxPairs
    /\ \E outgoing_file \in {NoPath, OutPath}, incoming_file \in {NoPath, InPath} :
           node_pairs' = add_node_pair(node_pairs, "10.0.0.1", "10.0.0.2",
                                       outgoing_file, incoming_file, None)
    /\ UNCHANGED <<pc, unit_vars, parse_vars, fs, sessions, origin, stdout,
                   matching, report, summary>>

NextLoad == AddNodePairAnyFiles \/ LoadAndParseData

SpecLoad == InitLoad /\ [][NextLoad]_vars

(***************************************************************************)
(* parse_log_file applied to one file: markers and lines in any order      *)
(***************************************************************************)
MaxItems == 5

SplitItems ==
    {Marker, TimestampLine(Timestamp), TextLine} \cup
    {SessionLine("10.0.0.1", "10.0.0.2", 7, seq) : seq \in Seqs}

InitSplit ==
    /\ pc = "input"
    /\ UnitIdle
    /\ ParseIdle
    /\ fs \in {OutPath :> content : content \in SeqsUpTo(SplitItems, MaxItems)}
    /\ node_pairs = <<>>
    /\ sessions = <<>>
    /\ origin = <<>>
    /\ stdout = <<>>
    /\ matching = NothingMatched
    /\ report = NoReport
    /\ summary = NoSummary

ParseLogFile ==
    /\ pc = "input"
    /\ LET parsed == parse_log_file(fs, OutPath, OUTGOING, basename(OutPath),
                                    "10.0.0.1", "10.0.0.2")
       IN  /\ sessions' = parsed.sessions
           /\ stdout' = parsed.stdout
    /\ pc' = "done"
    /\ UNCHANGED <<unit_vars, parse_vars, fs, node_pairs, origin, matching, report, summary>>

SpecSplit == InitSplit /\ [][ParseLogFile]_vars

(***************************************************************************)
(* parse_session_block applied to blocks with and without a timestamp, a   *)
(* session line, and well-formed numbers                                   *)
(***************************************************************************)
ParseTokens == LatencyTokens \cup {Dots}

WellFormedAndNot ==
    {Block(first_line, session_lines, pointers, path1, path2, total_lines)
        : first_line \in {TimestampLine(Timestamp), TextLine},
          session_lines \in {<<>>, <<BadSessionLine>>,
                             <<SessionLine("10.0.0.1", "10.0.0.2", 7, 3)>>},
          pointers \in PointerCases,
          path1 \in {<<>>} \cup {<<token>> : token \in ParseTokens},
          path2 \in {<<>>, <<Number(1)>>, <<Dots>>},
          total_lines \in {<<>>} \cup {<<TotalLine(token)>> : token \in ParseTokens}}

\* the blocks as they are, and between blank lines
ParseInputs ==
    WellFormedAndNot \cup {<<BlankLine>> \o b \o <<BlankLine>> : b \in WellFormedAndNot}

InitParse ==
    /\ pc = "input"
    /\ UnitIdle
    /\ block_in \in ParseInputs
    /\ record = NoSession
    /\ latencies_out = Returned(<<>>)
    /\ RunIdle

ParseSessionBlock ==
    /\ pc = "input"
    /\ record' = parse_session_block(block_in, OUTGOING, basename(OutPath),
                                     "10.0.0.1", "10.0.0.2")
    /\ pc' = "done"
    /\ UNCHANGED <<unit_vars, block_in, latencies_out, run_vars>>

SpecParse == InitParse /\ [][ParseSessionBlock]_vars

(***************************************************************************)
(* parse_path_latencies applied to the lines of a latency section          *)
(***************************************************************************)
MaxLines == 3

SectionLabels == {<<0, 1>>, <<1, 2>>, <<2, 3>>}

SectionLines ==
    {LatencyLine(label[1], label[2], token)
        : label \in SectionLabels, token \in LatencyTokens}

InitLatencies ==
    /\ pc = "input"
    /\ UnitIdle
    /\ block_in \in {<<PathHeader(1)>> \o section : section \in SeqsUpTo(SectionLines, MaxLines)}
    /\ record = NoSession
    /\ latencies_out = Returned(<<>>)
    /\ RunIdle

ParsePathLatencies ==
    /\ pc = "input"
    /\ latencies_out' = parse_path_latencies(block_in, 1)
    /\ pc' = "done"
    /\ UNCHANGED <<unit_vars, block_in, record, run_vars>>

SpecLatencies == InitLatencies /\ [][ParsePathLatencies]_vars

(***************************************************************************)
(* detect_packet_loss applied to every stage-pointer mapping               *)
(***************************************************************************)
InitDetect ==
    /\ pc = "input"
    /\ skb_pointers \in PointerMaps
    /\ loss = NoVerdictYet
    /\ path1_latencies = <<>>
    /\ path2_latencies = <<>>
    /\ corrupted_stages = <<>>
    /\ resolved = NothingResolved
    /\ ParseIdle
    /\ RunIdle

DetectPacketLoss ==
    /\ pc = "input"
    /\ loss' = detect_packet_loss(skb_pointers)
    /\ pc' = "done"
    /\ UNCHANGED <<skb_pointers, path1_latencies, path2_latencies, corrupted_stages,
                   resolved, parse_vars, run_vars>>

SpecDetect == InitDetect /\ [][DetectPacketLoss]_vars

(***************************************************************************)
(* find_max_latency_excluding_corrupted applied to every pair of latency   *)
(* mappings and every corrupted-stage list                                 *)
(***************************************************************************)
InitResolve ==
    /\ pc = "input"
    /\ skb_pointers = <<>>
    /\ loss = NoVerdictYet
    /\ path1_latencies \in LatencyMaps
    /\ path2_latencies \in LatencyMaps
    /\ corrupted_stages \in CorruptedLists
    /\ resolved = NothingResolved
    /\ ParseIdle
    /\ RunIdle

FindMaxLatency ==
    /\ pc = "input"
    /\ resolved' = find_max_latency_excluding_corrupted(
                       path1_latencies, path2_latencies, corrupted_stages)
    /\ pc' = "done"
    /\ UNCHANGED <<skb_pointers, loss, path1_latencies, path2_latencies,
                   corrupted_stages, parse_vars, run_vars>>

SpecResolve == InitResolve /\ [][FindMaxLatency]_vars

(***************************************************************************)
(* Properties                                                              *)
(***************************************************************************)
Has012 == {0, 1, 2} \subseteq DOMAIN skb_pointers

\* C1: whenever stages 0, 1 and 2 are present with pointer(0) = pointer(1)
\* and pointer(1) # pointer(2), detect_packet_loss returns lost, the
\* stage 1->2 mismatch reason and exactly the corrupted stage "1->2".
C1_Stage1To2Mismatch ==
    (pc = "done" /\ Has012 /\ skb_pointers[0] = skb_pointers[1]
                 /\ skb_pointers[1] # skb_pointers[2])
        => loss = Verdict(TRUE, "Stage_1_to_2_SKB_Mismatch", <<"1->2">>)

C1_Witness ==
    /\ pc = "done"
    /\ skb_pointers = (0 :> "0xAA" @@ 1 :> "0xAA" @@ 2 :> "0xBB")
    /\ loss.drop

\* C2: whenever stages 0, 1 and 2 are present with pointer(0) # pointer(1),
\* detect_packet_loss returns lost, the stage 0->1 mismatch reason and
\* exactly the corrupted stage "0->1", whatever pointer(2) is.
C2_Stage0To1Mismatch ==
    (pc = "done" /\ Has012 /\ skb_pointers[0] # skb_pointers[1])
        => loss = Verdict(TRUE, "Stage_0_to_1_SKB_Mismatch", <<"0->1">>)

C2_Witness ==
    /\ pc = "done"
    /\ Has012
    /\ skb_pointers[0] # skb_pointers[1]
    /\ skb_pointers[2] \notin {skb_pointers[0], skb_pointers[1]}
    /\ loss.corrupted_stages = <<"0->1">>

\* C3: whenever pointer(0) = pointer(1) = pointer(2), detect_packet_loss
\* returns not lost, no reason and no corrupted stage, whatever is recorded
\* for the stages from 3 on.
C3_EqualPointersNoLoss ==
    (pc = "done" /\ Has012 /\ skb_pointers[0] = skb_pointers[1]
                 /\ skb_pointers[1] = skb_pointers[2])
        => loss = Verdict(FALSE, None, <<>>)

C3_Witness ==
    /\ pc = "done"
    /\ Has012
    /\ 3 \in DOMAIN skb_pointers
    /\ skb_pointers[0] = skb_pointers[1]
    /\ skb_pointers[1] = skb_pointers[2]
    /\ skb_pointers[3] # skb_pointers[2]
    /\ ~loss.drop

\* C4: whenever one of the stages 0, 1, 2 is absent from the mapping,
\* detect_packet_loss returns not lost, no reason and no corrupted stage.
C4_InsufficientPointersNoLoss ==
    (pc = "done" /\ ~Has012) => loss = Verdict(FALSE, None, <<>>)

C4_Witness ==
    /\ pc = "done"
    /\ DOMAIN skb_pointers = {0, 1}
    /\ skb_pointers[0] # skb_pointers[1]
    /\ ~loss.drop

\* the latencies of the entries of a latency mapping
LatenciesOf(items) == {items[i].latency : i \in DOMAIN items}

\* the candidates of the resolver: the path-1 entries whose stage is not
\* corrupted and all path-2 entries, each with the label it would be given
Candidates ==
    {[label |-> "Path1_" \o path1_latencies[i].stage_pair,
      latency |-> path1_latencies[i].latency]
        : i \in {j \in DOMAIN path1_latencies
                   : ~InList(path1_latencies[j].stage_pair, corrupted_stages)}}
    \cup
    {[label |-> "Path2_" \o path2_latencies[i].stage_pair,
      latency |-> path2_latencies[i].latency]
        : i \in DOMAIN path2_latencies}

LargestOf(cands) == CHOOSE c \in cands : \A d \in cands : d.latency <= c.latency

\* the resolver's result is the largest of the candidates cands, or
\* (null, 0) when there is none
ResolvedFrom(cands) ==
    IF cands # {}
    THEN /\ resolved.max_stage # None
         /\ resolved.max_latency = LargestOf(cands).latency
         /\ \E c \in cands : /\ c.label = resolved.max_stage
                             /\ c.latency = resolved.max_latency
    ELSE resolved = Best(None, 0)

\* C5: the stage returned by find_max_latency_excluding_corrupted is never
\* "Path1_<label>" for a label of the corrupted list.
C5_CorruptedPath1NeverSelected ==
    pc = "done" =>
        \A i \in DOMAIN corrupted_stages :
            resolved.max_stage # "Path1_" \o corrupted_stages[i]

\* a corrupted path-1 entry holds the largest latency of all entries, and
\* another entry is returned
C5_Witness ==
    /\ pc = "done"
    /\ \E i \in DOMAIN path1_latencies :
          /\ InList(path1_latencies[i].stage_pair, corrupted_stages)
          /\ \A v \in (LatenciesOf(path1_latencies) \cup LatenciesOf(path2_latencies))
                        \ {path1_latencies[i].latency} :
                 v < path1_latencies[i].latency
          /\ Len(path1_latencies) = 2
    /\ resolved.max_stage # None

\* C6 as stated: whenever a candidate exists the result is the label and
\* value of the largest candidate, with a non-null label, also when all
\* candidates are 0; the result is (null, 0) when no candidate exists.
C6_Original == pc = "done" => ResolvedFrom(Candidates)

\* C6 as amended: whenever a candidate with a latency above 0 exists the
\* result is the label and value of the largest candidate, with a non-null
\* label; otherwise (no candidate, or every candidate 0) it is (null, 0).
C6_LargestPositiveCandidate ==
    pc = "done" => ResolvedFrom({c \in Candidates : c.latency > 0})

\* candidates exist, all of them 0, and the result is (null, 0)
C6_Witness ==
    /\ pc = "done"
    /\ Candidates # {}
    /\ \A c \in Candidates : c.latency = 0
    /\ resolved = Best(None, 0)

MatchedPairsSet == {matching.matched_pairs[n] : n \in DOMAIN matching.matched_pairs}

IsOutgoing(i) == sessions[i].direction = OUTGOING
IsIncoming(i) == sessions[i].direction = INCOMING

\* sessions i and j carry the same (session_id, seq)
SameKey(i, j) ==
    /\ sessions[i].session_id = sessions[j].session_id
    /\ sessions[i].seq = sessions[j].seq

SameGroup(i, j) == sessions[i].pair_name = sessions[j].pair_name

\* the number of positions of the list at which x stands
Occurrences(x, list) == Cardinality({n \in DOMAIN list : list[n] = x})

\* C7: no matched pair joins sessions of different pair names.
C7_NoCrossGroupMatch ==
    pc = "matched" =>
        \A m \in MatchedPairsSet :
            sessions[m.outgoing].pair_name = sessions[m.incoming].pair_name

\* an outgoing and an incoming session of different groups carry the same
\* key, and matched pairs exist
C7_Witness ==
    /\ pc = "matched"
    /\ matching.matched_pairs # <<>>
    /\ \E i, j \in DOMAIN sessions :
          /\ IsOutgoing(i) /\ IsIncoming(j)
          /\ SameKey(i, j) /\ ~SameGroup(i, j)

\* C8: no matched pair joins sessions parsed for different node pair
\* configurations, also when two configurations carry the same pair_name.
C8_NoCrossConfigMatch ==
    pc = "matched" =>
        \A m \in MatchedPairsSet : origin[m.outgoing] = origin[m.incoming]

OutgoingAsMatched(i) ==
    Cardinality({n \in DOMAIN matching.matched_pairs
                   : matching.matched_pairs[n].outgoing = i})

HasPartner(i) ==
    \E j \in DOMAIN sessions : IsIncoming(j) /\ SameGroup(i, j) /\ SameKey(i, j)

\* C9: every OUTGOING session is emitted exactly once: as the outgoing
\* member of one matched pair if an INCOMING session of its group carries
\* its key, and otherwise once in the outgoing-only list.
C9_OutgoingEmittedOnce ==
    pc = "matched" =>
        \A i \in DOMAIN sessions :
            IsOutgoing(i) =>
                IF HasPartner(i)
                THEN /\ OutgoingAsMatched(i) = 1
                     /\ Occurrences(i, matching.outgoing_only) = 0
                ELSE /\ OutgoingAsMatched(i) = 0
                     /\ Occurrences(i, matching.outgoing_only) = 1

\* one outgoing session is matched and another one is outgoing-only
C9_Witness ==
    /\ pc = "matched"
    /\ \E i, j \in DOMAIN sessions :
          /\ IsOutgoing(i) /\ HasPartner(i) /\ OutgoingAsMatched(i) = 1
          /\ IsOutgoing(j) /\ ~HasPartner(j) /\ InList(j, matching.outgoing_only)

\* C10: an INCOMING session is in the incoming-only list if and only if it
\* is not the incoming member of any matched pair.
C10_IncomingOnlyIffUnconsumed ==
    pc = "matched" =>
        \A i \in DOMAIN sessions :
            IsIncoming(i) =>
                (InList(i, matching.incoming_only)
                    <=> ~\E m \in MatchedPairsSet : m.incoming = i)

\* the analyses of the report, valid and dropped
ReportedAnalyses ==
    {report.valid_sessions[n] : n \in DOMAIN report.valid_sessions}
        \cup {report.dropped_sessions[n] : n \in DOMAIN report.dropped_sessions}

BidirectionalAnalyses == {a \in ReportedAnalyses : a.is_bidirectional}
UnidirectionalAnalyses == {a \in ReportedAnalyses : ~a.is_bidirectional}

\* the two records a bidirectional analysis was made from
OutgoingOf(a) == sessions[a.outgoing]
IncomingOf(a) == sessions[a.incoming]

\* C11: for every matched pair, the drop flag of the analysis equals
\* outgoing.drop OR incoming.drop.
C11_DropIsEitherDirection ==
    pc = "reported" =>
        \A a \in BidirectionalAnalyses :
            a.drop <=> (OutgoingOf(a).drop \/ IncomingOf(a).drop)

\* a matched pair whose incoming record alone lost the packet
C11_Witness ==
    /\ pc = "reported"
    /\ \E a \in BidirectionalAnalyses :
           ~OutgoingOf(a).drop /\ IncomingOf(a).drop /\ a.drop

\* C12: drop_details holds exactly one entry per direction whose record has
\* drop = true, that record's drop reason prefixed with OUTGOING_ or
\* INCOMING_, the outgoing entry first; hence it is non-empty if and only if
\* the drop flag of the analysis is true.
C12_DropDetailsPerLosingDirection ==
    pc = "reported" =>
        \A a \in BidirectionalAnalyses :
            LET out == OutgoingOf(a)
                inc == IncomingOf(a)
                n == Len(a.drop_details)
            IN  /\ n = (IF out.drop THEN 1 ELSE 0) + (IF inc.drop THEN 1 ELSE 0)
                /\ out.drop => a.drop_details[1] = "OUTGOING_" \o out.drop_reason
                /\ inc.drop => a.drop_details[n] = "INCOMING_" \o inc.drop_reason
                /\ (a.drop_details # <<>>) <=> a.drop

\* both directions lost the packet, at different stages
C12_Witness ==
    /\ pc = "reported"
    /\ \E a \in BidirectionalAnalyses :
           a.drop_details = <<"OUTGOING_Stage_0_to_1_SKB_Mismatch",
                              "INCOMING_Stage_1_to_2_SKB_Mismatch">>

\* C13: the overall max_latency is the larger of outgoing.max_latency and
\* incoming.max_latency, and max_stage is the max_stage of that direction
\* tagged with the direction; when the two are equal the outgoing direction
\* is chosen.
C13_OverallMaxIsLargerDirection ==
    pc = "reported" =>
        \A a \in BidirectionalAnalyses :
            LET out == OutgoingOf(a)
                inc == IncomingOf(a)
            IN  /\ a.max_latency >= out.max_latency
                /\ a.max_latency >= inc.max_latency
                /\ a.max_latency \in {out.max_latency, inc.max_latency}
                /\ out.max_latency > inc.max_latency
                       => a.max_stage = "OUTGOING_" \o out.max_stage
                /\ out.max_latency < inc.max_latency
                       => a.max_stage = "INCOMING_" \o inc.max_stage
                /\ out.max_latency = inc.max_latency
                       => a.max_stage = "OUTGOING_" \o out.max_stage

\* a tie between two measured directions, resolved for the outgoing one
C13_Witness ==
    /\ pc = "reported"
    /\ \E a \in BidirectionalAnalyses :
           /\ OutgoingOf(a).max_latency = 1
           /\ IncomingOf(a).max_latency = 1
           /\ a.max_stage = "OUTGOING_Path1_0->1"
           /\ a.max_latency = 1

\* C14: physical_network_delay is |outgoing.total_rtt - incoming.total_rtt| / 2
\* whenever both records have a total_rtt, a total_rtt of 0 included, and is
\* absent if and only if at least one of the two is absent.
C14_PhysicalNetworkDelay ==
    pc = "reported" =>
        \A a \in BidirectionalAnalyses :
            LET out == OutgoingOf(a).total_rtt
                inc == IncomingOf(a).total_rtt
            IN  IF out # NoRtt /\ inc # NoRtt
                THEN a.physical_network_delay = Abs(out - inc) \div 2
                ELSE a.physical_network_delay = NoDelay

\* the analysis copies the verdict of the record and carries the tag
Copies(a, session, tag) ==
    /\ a.drop = session.drop
    /\ a.max_stage = session.max_stage
    /\ a.max_latency = session.max_latency
    /\ a.total_rtt = session.total_rtt
    /\ a.path1_latencies = session.path1_latencies
    /\ a.path2_latencies = session.path2_latencies
    /\ a.is_bidirectional = FALSE
    /\ a.available_direction = tag
    /\ a.direction_type = tag
    /\ a.drop_details = IF session.drop THEN <<tag \o "_" \o session.drop_reason>>
                        ELSE <<>>

\* the unmatched records with their direction tags
Unmatched ==
    {<<matching.outgoing_only[n], OUTGOING>> : n \in DOMAIN matching.outgoing_only}
        \cup {<<matching.incoming_only[n], INCOMING>> : n \in DOMAIN matching.incoming_only}

\* C15: the analysis of an unmatched record has the drop, max_stage,
\* max_latency, total_rtt, path1_latencies and path2_latencies of the record,
\* is_bidirectional false, available_direction and direction_type equal to
\* the direction tag, and drop_details the single tagged reason when drop is
\* true and empty otherwise.
C15_UnidirectionalCopiesRecord ==
    pc = "reported" =>
        /\ \A u \in Unmatched :
               \E a \in UnidirectionalAnalyses : Copies(a, sessions[u[1]], u[2])
        /\ \A a \in UnidirectionalAnalyses :
               \E u \in Unmatched : Copies(a, sessions[u[1]], u[2])

\* an unmatched incoming record that lost the packet
C15_Witness ==
    /\ pc = "reported"
    /\ \E a \in UnidirectionalAnalyses :
           /\ a.drop
           /\ a.drop_details = <<"INCOMING_Stage_1_to_2_SKB_Mismatch">>
           /\ a.max_latency = 2

\* C16: parse_session_block returns a null result if and only if the block
\* lacks a parseable timestamp on its first line or a parseable session
\* line; every block that has both yields a record, whatever its pointer,
\* latency and total-RTT lines contain, and no error leaves the parser (the
\* parser returns, with a record or with a null result).
HasTimestamp(b) ==
    \E i \in DOMAIN b : b[i].kind = "timestamp" /\ \A j \in 1..(i - 1) : b[j].kind = "blank"

HasSessionLine(b) == \E i \in DOMAIN b : b[i].kind = "session" /\ b[i].ok

C16_NullIffNoTimestampOrSession ==
    pc = "done" =>
        /\ record \in {NoSession, ParseError} \/ record.parsed
        /\ ~record.parsed <=> (~HasTimestamp(block_in) \/ ~HasSessionLine(block_in))

\* C17: for every file parsed, a count of the skipped blocks of the file,
\* the number of blocks less the number of records returned, is part of
\* what the run prints.
FileOfDirection(p, direction) ==
    IF direction = OUTGOING THEN node_pairs[p].outgoing_file
    ELSE node_pairs[p].incoming_file

FilesParsed ==
    {f \in (DOMAIN node_pairs) \X {OUTGOING, INCOMING} :
        FileOfDirection(f[1], f[2]) \in DOMAIN fs}

RecordsOf(p, direction) ==
    Cardinality({i \in DOMAIN sessions : origin[i] = p /\ sessions[i].direction = direction})

BlocksOf(p, direction) == Len(SessionBlocks(fs[FileOfDirection(p, direction)]))

C17_SkippedBlocksCounted ==
    pc = "loaded" =>
        \A f \in FilesParsed :
            \E n \in DOMAIN stdout :
                /\ stdout[n].kind = "skipped"
                /\ stdout[n].source_file = basename(FileOfDirection(f[1], f[2]))
                /\ stdout[n].skipped + RecordsOf(f[1], f[2]) = BlocksOf(f[1], f[2])

\* C18: a line whose value is N/A contributes no key to the mapping, and
\* every line with a number contributes its label with that number (the
\* last such line of a label decides); e.g. [0->1]: 2, [1->2]: N/A,
\* [2->3]: 1 give exactly {"0->1": 2, "2->3": 1}.
SectionOf(lines) == Tail(lines)

NumericLines(lines) ==
    {i \in DOMAIN lines : lines[i].kind = "latency" /\ lines[i].token.form = "number"}

LabelOf(line) == StageKey(line.start, line.end)

C18_PlaceholderOmitted ==
    pc = "done" =>
        LET lines == SectionOf(block_in)
            m == latencies_out.value
        IN  /\ ~latencies_out.raised
            /\ {m[n].stage_pair : n \in DOMAIN m}
                   = {LabelOf(lines[i]) : i \in NumericLines(lines)}
            /\ \A n, k \in DOMAIN m : m[n].stage_pair = m[k].stage_pair => n = k
            /\ \A n \in DOMAIN m :
                   \E i \in NumericLines(lines) :
                       /\ LabelOf(lines[i]) = m[n].stage_pair
                       /\ lines[i].token.value = m[n].latency
                       /\ \A j \in NumericLines(lines) :
                              LabelOf(lines[j]) = m[n].stage_pair => j <= i

\* the example of the specification
C18_Witness ==
    /\ pc = "done"
    /\ block_in = <<PathHeader(1), LatencyLine(0, 1, Number(2)),
                    LatencyLine(1, 2, NotAvailable), LatencyLine(2, 3, Number(1))>>
    /\ latencies_out = Returned(<<Entry("0->1", 2), Entry("2->3", 1)>>)

\* C19: a direction whose file is missing, its path not given or the file
\* not on disk, contributes no record for the pair, and the records loaded
\* are those loaded with an empty file in the place of every missing one.
EmptyPath == <<"data", "empty.log">>

Missing(file_path) == file_path = NoPath \/ file_path \notin DOMAIN fs

WithEmptyFiles ==
    [path \in Paths \cup {EmptyPath} |-> IF path \in DOMAIN fs THEN fs[path] ELSE <<>>]

WithPathsGiven ==
    [p \in DOMAIN node_pairs |->
        [node_pairs[p] EXCEPT
            !.outgoing_file = IF @ = NoPath THEN EmptyPath ELSE @,
            !.incoming_file = IF @ = NoPath THEN EmptyPath ELSE @]]

C19_MissingFileAsEmpty ==
    pc = "loaded" =>
        /\ \A p \in DOMAIN node_pairs, direction \in {OUTGOING, INCOMING} :
               Missing(FileOfDirection(p, direction)) => RecordsOf(p, direction) = 0
        /\ sessions = load_and_parse_data(WithEmptyFiles, WithPathsGiven).sessions
        /\ origin = load_and_parse_data(WithEmptyFiles, WithPathsGiven).origin

\* the outgoing file of a pair is not on disk, its incoming file gave a
\* record, and so did another pair
C19_Witness ==
    /\ pc = "loaded"
    /\ \E p \in DOMAIN node_pairs :
           /\ node_pairs[p].outgoing_file = OutPath
           /\ OutPath \notin DOMAIN fs
           /\ RecordsOf(p, INCOMING) > 0
           /\ \E i \in DOMAIN sessions : origin[i] # p

\* C20: a bidirectional analysis has exactly the fields the specification
\* lists for it, a unidirectional analysis exactly those listed for it.
BidirectionalSchema ==
    {"session_key", "pair_name", "session_type", "direction", "session_id", "seq",
     "drop", "drop_details", "outgoing_max_stage", "outgoing_max_latency",
     "incoming_max_stage", "incoming_max_latency", "max_stage", "max_latency",
     "physical_network_delay", "fping_processing_delay",
     "outgoing_path1_latencies", "outgoing_path2_latencies",
     "incoming_path1_latencies", "incoming_path2_latencies",
     "outgoing_total_rtt", "incoming_total_rtt", "is_bidirectional"}

UnidirectionalSchema ==
    {"session_key", "pair_name", "session_type", "direction_type", "direction",
     "session_id", "seq", "timestamp", "drop", "drop_details", "max_stage",
     "max_latency", "total_rtt", "path1_latencies", "path2_latencies",
     "is_bidirectional", "available_direction"}

C20_Original ==
    pc = "reported" =>
        \A a \in ReportedAnalyses :
            IF a.is_bidirectional
            THEN a.session_type = "bidirectional" /\ DOMAIN a = BidirectionalSchema
            ELSE a.session_type = "unidirectional" /\ DOMAIN a = UnidirectionalSchema

\* C20 as the code has it: a bidirectional analysis has the fields listed
\* and the three fields outgoing, incoming, available_directions; a
\* unidirectional analysis has exactly the fields listed.
C20_FieldSets ==
    pc = "reported" =>
        \A a \in ReportedAnalyses :
            IF a.is_bidirectional
            THEN /\ a.session_type = "bidirectional"
                 /\ DOMAIN a = BidirectionalSchema
                                   \cup {"outgoing", "incoming", "available_directions"}
            ELSE /\ a.session_type = "unidirectional"
                 /\ DOMAIN a = UnidirectionalSchema

\* the analysis of a matched pair, with the three fields
C20_Witness ==
    /\ pc = "reported"
    /\ \E a \in ReportedAnalyses :
           /\ a.is_bidirectional
           /\ {"outgoing", "incoming", "available_directions"} \subseteq DOMAIN a
           /\ BidirectionalSchema \subseteq DOMAIN a

\* the candidates in the order of the scan: the path-1 entries whose stage
\* is not corrupted, then the path-2 entries, each with its label
ScanOrder ==
    LET kept == SelectSeq(path1_latencies,
                          LAMBDA item : ~InList(item.stage_pair, corrupted_stages))
    IN  [i \in DOMAIN kept |->
            [label |-> "Path1_" \o kept[i].stage_pair, latency |-> kept[i].latency]]
        \o [i \in DOMAIN path2_latencies |->
            [label |-> "Path2_" \o path2_latencies[i].stage_pair,
             latency |-> path2_latencies[i].latency]]

\* the path-2 entry i has a corrupted label and a latency strictly larger
\* than that of every other candidate
CorruptedPath2Largest(i) ==
    /\ InList(path2_latencies[i].stage_pair, corrupted_stages)
    /\ \A j \in DOMAIN path2_latencies \ {i} :
           path2_latencies[j].latency < path2_latencies[i].latency
    /\ \A j \in DOMAIN path1_latencies :
           ~InList(path1_latencies[j].stage_pair, corrupted_stages)
               => path1_latencies[j].latency < path2_latencies[i].latency

\* C23 as stated: a path-2 entry whose label is in the corrupted list is
\* returned as "Path2_<label>" whenever its latency is strictly larger than
\* that of every other candidate, a latency of 0 with no other candidate
\* included.
C23_Original ==
    pc = "done" =>
        \A i \in DOMAIN path2_latencies :
            CorruptedPath2Largest(i)
                => resolved = Best("Path2_" \o path2_latencies[i].stage_pair,
                                   path2_latencies[i].latency)

\* C23 as amended: a path-2 entry whose label is in the corrupted list is
\* returned as "Path2_<label>" whenever its latency is above 0 and strictly
\* larger than that of every other candidate.
C23_CorruptedPath2Eligible ==
    pc = "done" =>
        \A i \in DOMAIN path2_latencies :
            (CorruptedPath2Largest(i) /\ path2_latencies[i].latency > 0)
                => resolved = Best("Path2_" \o path2_latencies[i].stage_pair,
                                   path2_latencies[i].latency)

\* a corrupted path-2 entry beats a path-1 candidate and is returned
C23_Witness ==
    /\ pc = "done"
    /\ \E i \in DOMAIN path2_latencies :
           /\ CorruptedPath2Largest(i)
           /\ resolved.max_stage = "Path2_" \o path2_latencies[i].stage_pair
    /\ \E j \in DOMAIN path1_latencies :
           /\ ~InList(path1_latencies[j].stage_pair, corrupted_stages)
           /\ path1_latencies[j].latency > 0

\* the first candidate of the scan that holds the largest latency
FirstLargest(order) ==
    LET largest == {i \in DOMAIN order : \A j \in DOMAIN order :
                                             order[j].latency <= order[i].latency}
    IN  CHOOSE i \in largest : \A j \in largest : i <= j

\* several candidates of the scan hold the largest latency
TiedLargest(order) ==
    \E i, j \in DOMAIN order :
        /\ i # j
        /\ order[i].latency = order[j].latency
        /\ \A k \in DOMAIN order : order[k].latency <= order[i].latency

\* C24 as stated: when several candidates share the largest latency, the
\* label returned is that of the first of them in the scan, also when the
\* largest latency is 0.
C24_Original ==
    pc = "done" =>
        (TiedLargest(ScanOrder)
            => resolved.max_stage = ScanOrder[FirstLargest(ScanOrder)].label)

\* C24 as amended: when several candidates share the largest latency and it
\* is above 0, the label returned is that of the first of them in the scan; a
\* later candidate with an equal latency does not replace it.
C24_FirstSeenLargestKept ==
    pc = "done" =>
        ((TiedLargest(ScanOrder) /\ \E i \in DOMAIN ScanOrder : ScanOrder[i].latency > 0)
            => resolved = Best(ScanOrder[FirstLargest(ScanOrder)].label,
                               ScanOrder[FirstLargest(ScanOrder)].latency))

\* a path-1 candidate and two path-2 entries share the largest latency, and
\* the path-1 candidate is returned
C24_Witness ==
    /\ pc = "done"
    /\ Len(path2_latencies) = 2
    /\ \A i \in DOMAIN path2_latencies : path2_latencies[i].latency = MaxLatency
    /\ \E j \in DOMAIN path1_latencies :
           /\ ~InList(path1_latencies[j].stage_pair, corrupted_stages)
           /\ path1_latencies[j].latency = MaxLatency
           /\ resolved = Best("Path1_" \o path1_latencies[j].stage_pair, MaxLatency)

\* C25: every record parse_session_block returns carries the verdict of
\* detect_packet_loss on its own skb_pointers and the result of
\* find_max_latency_excluding_corrupted on its own path-1 and path-2
\* latencies with its own corrupted stages; so its max_stage is never
\* "Path1_<label>" for a label among its corrupted stages.
C25_ParserWiring ==
    (pc = "done" /\ record.parsed) =>
        /\ Verdict(record.drop, record.drop_reason, record.corrupted_stages)
               = detect_packet_loss(record.skb_pointers)
        /\ Best(record.max_stage, record.max_latency)
               = find_max_latency_excluding_corrupted(
                     record.path1_latencies, record.path2_latencies,
                     record.corrupted_stages)
        /\ \A label \in StageKeys :
               InList(label, record.corrupted_stages)
                   => record.max_stage # "Path1_" \o label

\* a record whose largest latency is that of a corrupted path-1 stage, and
\* whose max_stage is the smaller path-2 entry
C25_Witness ==
    /\ pc = "done"
    /\ record.parsed
    /\ record.drop
    /\ \E i \in DOMAIN record.path1_latencies :
           /\ InList(record.path1_latencies[i].stage_pair, record.corrupted_stages)
           /\ record.path1_latencies[i].latency > record.max_latency
    /\ record.max_stage = "Path2_0->1"

\* the places of the markers in a text, in file order
MarkersOf(content) == {i \in DOMAIN content : content[i].kind = "marker"}

NthMarker(content, n) ==
    CHOOSE i \in MarkersOf(content) :
        Cardinality({j \in MarkersOf(content) : j < i}) = n - 1

\* the text from after the marker at place i up to the next marker, or to
\* the end of the text
SegmentAfter(content, i) ==
    LET later == {j \in MarkersOf(content) : j > i}
        stop == IF later = {} THEN Len(content) + 1
                ELSE CHOOSE j \in later : \A k \in later : j <= k
    IN  SubSeq(content, i + 1, stop - 1)

SegmentsAfterMarkers(content) ==
    [n \in 1..Cardinality(MarkersOf(content)) |->
        SegmentAfter(content, NthMarker(content, n))]

\* the records of the segments that parse, in the order of the segments
RecordsOfSegments(segments) ==
    SelectSeq([n \in DOMAIN segments |->
                  parse_session_block(segments[n], OUTGOING, basename(OutPath),
                                      "10.0.0.1", "10.0.0.2")],
              LAMBDA result : result.parsed)

\* C22: the blocks parse_log_file hands to the parser are the segments of
\* text after each marker, in file order, and its records are those of
\* these segments; text before the first marker gives no block; a file
\* without a marker gives no block, no record and no message.
C22_BlocksFollowMarkers ==
    pc = "done" =>
        /\ SessionBlocks(fs[OutPath]) = SegmentsAfterMarkers(fs[OutPath])
        /\ sessions = RecordsOfSegments(SegmentsAfterMarkers(fs[OutPath]))
        /\ MarkersOf(fs[OutPath]) = {} => (sessions = <<>> /\ stdout = <<>>)
        /\ ErrorLine \notin {stdout[i] : i \in DOMAIN stdout}

\* a block that would parse stands before the first marker, and only the
\* block after the marker is parsed
C22_Witness ==
    /\ pc = "done"
    /\ fs[OutPath] = <<TimestampLine(Timestamp), SessionLine("10.0.0.1", "10.0.0.2", 7, 3),
                       Marker, TimestampLine(Timestamp)>>
                     \o <<SessionLine("10.0.0.1", "10.0.0.2", 7, 4)>>
    /\ Len(sessions) = 1
    /\ sessions[1].seq = 4

\* the record of the direction analyze_single_session_pair takes the
\* largest latency from
ChosenOf(a) ==
    IF OutgoingOf(a).max_latency >= IncomingOf(a).max_latency
    THEN OutgoingOf(a) ELSE IncomingOf(a)

\* the analysis has a stage its largest latency is attributed to
Attributable(a) ==
    IF a.is_bidirectional THEN ChosenOf(a).max_stage # None ELSE a.max_stage # None

\* the stage labels the summary counts sessions under
CountedStages ==
    (DOMAIN summary.overall_analysis.stage_distribution)
        \cup (DOMAIN summary.dropped_sessions_analysis.stage_distribution)

\* C21: when the record of the chosen direction has no max_stage, the
\* max_stage of the bidirectional analysis is None as well, and the stage
\* distributions of the summary, valid and dropped, count no session that
\* has no attributable stage.
C21_NullStageStaysNull ==
    pc = "summarized" =>
        \A a \in ReportedAnalyses :
            ~Attributable(a) => (a.max_stage = None /\ a.max_stage \notin CountedStages)

\* the records parse_session_block returns for the blocks of the file that
\* sessions[i] was parsed from
ReturnedByParser(i) ==
    LET p == origin[i]
        file_path == FileOfDirection(p, sessions[i].direction)
        blocks == SessionBlocks(fs[file_path])
    IN  {parse_session_block(blocks[n], sessions[i].direction, basename(file_path),
                             node_pairs[p].src_ip, node_pairs[p].dst_ip)
            : n \in DOMAIN blocks}

\* a record without one of its fields
Without(session, field) == [f \in (DOMAIN session) \ {field} |-> session[f]]

\* C26 as stated: every record of self.sessions is, field for field, a
\* record parse_session_block returned: no step after the parser, the loader
\* included, has added, removed or changed a field.
C26_Original ==
    pc # "config" => \A i \in DOMAIN sessions : sessions[i] \in ReturnedByParser(i)

\* C26 as amended: load_and_parse_data adds the field pair_name to the record
\* parse_session_block returned and changes nothing else; after loading, no
\* step (matching, analysis, report, summary) changes self.sessions, so
\* max_stage and max_latency stay those computed by the parser.
C26_OnlyPairNameAdded ==
    /\ [](pc # "config" =>
             \A i \in DOMAIN sessions :
                 /\ Without(sessions[i], "pair_name") \in ReturnedByParser(i)
                 /\ sessions[i].pair_name = node_pairs[origin[i]].pair_name)
    /\ [][pc # "config" => sessions' = sessions]_vars

\* the run is over, a loaded record carries a largest latency and its pair
\* name, and the report holds an analysis made from it
C26_Witness ==
    /\ pc = "summarized"
    /\ \E i \in DOMAIN sessions :
           /\ sessions[i].max_stage = "Path1_0->1"
           /\ sessions[i].pair_name = "10.0.0.1->10.0.0.2"
           /\ "pair_name" \notin DOMAIN parse_session_block(
                  SessionBlocks(fs[OutPath])[1], OUTGOING, basename(OutPath),
                  "10.0.0.1", "10.0.0.2")
    /\ report.total_sessions > 0

\* the records of one pair-name group alone, in the order of the list
GroupAlone(pair_name) == SelectSeq(sessions, LAMBDA session : session.pair_name = pair_name)

\* the result of the matcher on one group alone, its k-th record named by
\* the place members[k] the record has in self.sessions
MatchedAlone(pair_name) ==
    LET members == GroupMembers(sessions, pair_name)
        alone == match_session_pairs_for_all_nodes(GroupAlone(pair_name))
    IN  Matching([n \in DOMAIN alone.matched_pairs |->
                     [outgoing |-> members[alone.matched_pairs[n].outgoing],
                      incoming |-> members[alone.matched_pairs[n].incoming]]],
                 [n \in DOMAIN alone.outgoing_only |-> members[alone.outgoing_only[n]]],
                 [n \in DOMAIN alone.incoming_only |-> members[alone.incoming_only[n]]])

\* the pair names of the list, in the order of their first record
PairNamesInOrder ==
    LET leaders == GroupLeaders(sessions)
    IN  [n \in DOMAIN leaders |-> sessions[leaders[n]].pair_name]

\* the per-group results one after the other
RECURSIVE Concatenated(_)
Concatenated(names) ==
    IF names = <<>> THEN Matching(<<>>, <<>>, <<>>)
    ELSE LET first == MatchedAlone(Head(names))
             rest == Concatenated(Tail(names))
         IN  Matching(first.matched_pairs \o rest.matched_pairs,
                      first.outgoing_only \o rest.outgoing_only,
                      first.incoming_only \o rest.incoming_only)

\* C27: the result of match_session_pairs_for_all_nodes is the concatenation,
\* in the order of the groups, of the results the matcher gives on the
\* records of each pair-name group alone.
C27_MatchingPerGroup ==
    pc = "matched" => matching = Concatenated(PairNamesInOrder)

\* two groups, each with a matched pair, and records of one group with the
\* key of the other
C27_Witness ==
    /\ pc = "matched"
    /\ Len(PairNamesInOrder) = 2
    /\ Len(matching.matched_pairs) = 2
    /\ ~SameGroup(matching.matched_pairs[1].outgoing, matching.matched_pairs[2].outgoing)
    /\ SameKey(matching.matched_pairs[1].outgoing, matching.matched_pairs[2].outgoing)

\* (session_id, seq) is unique per direction within each pair-name group
UniqueKeys ==
    \A i, j \in DOMAIN sessions :
        (i # j /\ SameGroup(i, j) /\ sessions[i].direction = sessions[j].direction)
            => ~SameKey(i, j)

\* the number of output slots of the matcher that hold session i
Slots(i) ==
    Cardinality({n \in DOMAIN matching.matched_pairs :
                     matching.matched_pairs[n].outgoing = i})
    + Cardinality({n \in DOMAIN matching.matched_pairs :
                       matching.matched_pairs[n].incoming = i})
    + Occurrences(i, matching.outgoing_only)
    + Occurrences(i, matching.incoming_only)

\* C28: when (session_id, seq) is unique per direction within each group,
\* every record is in exactly one output slot of the matcher, every matched
\* pair is an OUTGOING and an INCOMING record of the same key and pair
\* name, and 2*|matched| + |outgoing_only| + |incoming_only| is the number
\* of records.
C28_MatcherPartition ==
    (pc = "matched" /\ UniqueKeys) =>
        /\ \A i \in DOMAIN sessions : Slots(i) = 1
        /\ \A pair \in MatchedPairsSet :
               /\ IsOutgoing(pair.outgoing)
               /\ IsIncoming(pair.incoming)
               /\ SameKey(pair.outgoing, pair.incoming)
               /\ SameGroup(pair.outgoing, pair.incoming)
        /\ 2 * Len(matching.matched_pairs) + Len(matching.outgoing_only)
               + Len(matching.incoming_only) = Len(sessions)

\* unique keys, and all three kinds of slot are in use
C28_Witness ==
    /\ pc = "matched"
    /\ UniqueKeys
    /\ matching.matched_pairs # <<>>
    /\ matching.outgoing_only # <<>>
    /\ matching.incoming_only # <<>>

\* the matched pairs whose incoming member is session i
PairsWithIncoming(i) ==
    {n \in DOMAIN matching.matched_pairs : matching.matched_pairs[n].incoming = i}

\* C29: for any input, records with the same (session_id, seq) included,
\* every INCOMING record is the incoming member of a matched pair or is in
\* the incoming-only list, and no INCOMING record is the incoming member of
\* more than one matched pair.
C29_NoIncomingLostOrReused ==
    pc = "matched" =>
        \A i \in DOMAIN sessions :
            IsIncoming(i) =>
                /\ PairsWithIncoming(i) # {} \/ Occurrences(i, matching.incoming_only) > 0
                /\ Cardinality(PairsWithIncoming(i)) <= 1

\* the places of the report an analysis can stand at, and the analysis there
ReportPlaces ==
    ({"valid_sessions"} \X DOMAIN report.valid_sessions)
        \cup ({"dropped_sessions"} \X DOMAIN report.dropped_sessions)

AnalysisAt(place) == report[place[1]][place[2]]

\* the places of the analyses made from the matched pair
PlacesOfPair(pair) ==
    {place \in ReportPlaces :
        /\ AnalysisAt(place).is_bidirectional
        /\ AnalysisAt(place).outgoing = pair.outgoing
        /\ AnalysisAt(place).incoming = pair.incoming}

\* the places of the analyses made from the unmatched record u
PlacesOfUnmatched(u) ==
    {place \in ReportPlaces :
        /\ ~AnalysisAt(place).is_bidirectional
        /\ AnalysisAt(place).direction_type = u[2]
        /\ AnalysisAt(place).session_key = UnidirectionalKey(sessions[u[1]], u[2])}

\* C30: the report holds exactly one analysis per matched pair and per
\* unmatched record and no other; the analyses of valid_sessions have drop
\* false and those of dropped_sessions drop true; and total_sessions =
\* matched_sessions + outgoing_only + incoming_only = |valid_sessions| +
\* |dropped_sessions|.
C30_ReportPartition ==
    pc = "reported" =>
        /\ \A pair \in MatchedPairsSet : Cardinality(PlacesOfPair(pair)) = 1
        /\ \A u \in Unmatched : Cardinality(PlacesOfUnmatched(u)) = 1
        /\ \A place \in ReportPlaces :
               \/ \E pair \in MatchedPairsSet : place \in PlacesOfPair(pair)
               \/ \E u \in Unmatched : place \in PlacesOfUnmatched(u)
        /\ \A n \in DOMAIN report.valid_sessions : ~report.valid_sessions[n].drop
        /\ \A n \in DOMAIN report.dropped_sessions : report.dropped_sessions[n].drop
        /\ report.matched_sessions = Len(matching.matched_pairs)
        /\ report.outgoing_only = Len(matching.outgoing_only)
        /\ report.incoming_only = Len(matching.incoming_only)
        /\ report.total_sessions = report.matched_sessions + report.outgoing_only
                                       + report.incoming_only
        /\ report.total_sessions = Len(report.valid_sessions)
                                       + Len(report.dropped_sessions)

\* two unmatched records, one analysed as valid and one as dropped
C30_Witness ==
    /\ pc = "reported"
    /\ report.total_sessions = 2
    /\ report.outgoing_only = 1
    /\ report.incoming_only = 1
    /\ Len(report.valid_sessions) = 1
    /\ Len(report.dropped_sessions) = 1

====
